---- MODULE Spec2Model ----
(***************************************************************************)
(* Model of the per-guild playback queue manager of Dude-Bot-Dash:         *)
(*   src/src/server/music/MusicManager.ts   (class MusicManager)           *)
(*   src/unnamed/part_000                   (slash-command handlers,       *)
(*                                           socket handlers, bot events)  *)
(*                                                                         *)
(* JavaScript runs one synchronous segment at a time, so every action      *)
(* below is one synchronous segment of a handler: from its start or from   *)
(* the resumption of an `await` up to the next `await` or the return.      *)
(* The three places where the code suspends are the voice connection       *)
(* becoming ready (joinChannel, entersState), the provider search          *)
(* (addTrack) and the stream request (play).                               *)
(*                                                                         *)
(* The audio sink is the AudioPlayer of @discordjs/voice.  Its state       *)
(* machine is modelled as far as the manager observes it:                  *)
(*   play(resource)  : any state -> buffering (no listener is registered   *)
(*                     for that state), later buffering -> playing;        *)
(*   pause()         : playing -> paused, emitted synchronously;           *)
(*   unpause()       : paused -> playing, emitted synchronously;           *)
(*   stop()          : marks the resource as ending; the player goes idle  *)
(*                     only when it next reads the resource, which it      *)
(*                     does only while playing;                            *)
(*   end of stream   : playing -> idle.                                    *)
(***************************************************************************)
EXTENDS Integers, Sequences, FiniteSets, TLC

\* ---------------------------------------------------------------- bounds
\* addTrack invocations in one behaviour; invocation n creates Track n when
\* its resolution succeeds, so Track numbers follow the order of invocation
MaxTracks == 3

\* AudioPlayer objects alive at the same time (joinChannel creates one per
\* call; a player nothing refers to any more is garbage)
MaxPlayers == 2

Guilds == {"g1", "g2"}
Channels == {"cX", "cY"}
Tracks == 1..MaxTracks
PlayerIds == 1..MaxPlayers

\* `null` in Queue.currentTrack, and the resource of a player without one
NoTrack == 0

VARIABLES
    connections,  \* MusicManager.connections : guild -> [player, voiceChannel]
    queues,       \* MusicManager.queues      : guild -> Queue
    players,      \* the AudioPlayers that createAudioPlayer returned
    joins,        \* joinChannel calls waiting for the connection to be ready
    resolving,    \* addTrack calls waiting for the provider
    results,      \* how the addTrack calls that returned ended, by Track number
    loads,        \* play calls waiting for the stream
    crashed,      \* an exception nobody catches was thrown in a callback
    conflicts,    \* /play commands answered with the channel conflict
    replying,     \* handlePlayCommand calls waiting for editReply with their Track
    emitted,      \* guild -> the Queue of its latest 'queue-update' event
    stats,        \* the latest 'stats-update' event, if there was one
    socket        \* one dashboard client: connected or not, the rooms it
                  \* joined, the 'queue-update' events it received

vars == <<connections, queues, players, joins, resolving, results, loads,
          crashed, conflicts, replying, emitted, stats, socket>>

\* ------------------------------------------------------------ data model
\* the Queue that joinChannel registers for a guild that has none
NewQueue ==
    [tracks |-> <<>>, currentTrack |-> NoTrack, isPlaying |-> FALSE,
     isPaused |-> FALSE, volume |-> 100, loop |-> "none", shuffle |-> FALSE]

\* the AudioPlayer that createAudioPlayer() returns
NewPlayer(g) ==
    [guild |-> g, status |-> "idle", resource |-> NoTrack, stopping |-> FALSE]

HasQueue(g) == g \in DOMAIN queues
HasConnection(g) == g \in DOMAIN connections

\* Map.set and Map.delete
MapSet(m, k, v) == [x \in (DOMAIN m) \cup {k} |-> IF x = k THEN v ELSE m[x]]
MapDelete(m, k) == [x \in (DOMAIN m) \ {k} |-> m[x]]

Init ==
    /\ connections = <<>>
    /\ queues = <<>>
    /\ players = <<>>
    /\ joins = {}
    /\ resolving = {}
    /\ results = <<>>
    /\ loads = {}
    /\ crashed = FALSE
    /\ conflicts = 0
    /\ replying = {}
    /\ emitted = <<>>
    /\ stats = <<>>
    /\ socket = [connected |-> FALSE, rooms |-> {}, inbox |-> <<>>]

\* ------------------------------------------------------- pure operations
\* the Track number the next addTrack invocation gets
NextTrack == 1 + Cardinality({r.track : r \in resolving}) + Cardinality(DOMAIN results)

\* the /play commands issued so far that are answered or still running
Commands == Cardinality({r.track : r \in resolving}) + Cardinality(DOMAIN results)
                + Cardinality(joins) + conflicts

\* the handle createAudioPlayer returns next
NextPlayer == CHOOSE p \in PlayerIds \ DOMAIN players :
                  \A o \in PlayerIds \ DOMAIN players : p <= o

\* an AudioPlayer that something can still reach: the registered connection,
\* a joinChannel or play call in flight, or its own stream (a buffering or
\* playing player still emits signals)
Reachable(p, ps, cs, js, ls) ==
    \/ \E g \in DOMAIN cs : cs[g].player = p
    \/ \E j \in js : j.player = p
    \/ \E l \in ls : l.player = p
    \/ ps[p].status \in {"buffering", "playing"}

Collect(ps, cs, js, ls) ==
    [p \in {x \in DOMAIN ps : Reachable(x, ps, cs, js, ls)} |-> ps[p]]

\* playNext taking the Track from the wrong end (pop instead of shift)
PlayNextQueue_Pop(q) ==
    IF Len(q.tracks) = 0 THEN q
    ELSE [q EXCEPT !.currentTrack = q.tracks[Len(q.tracks)],
                   !.tracks = SubSeq(q.tracks, 1, Len(q.tracks) - 1)]

\* playNext, queue part: shift the head of tracks into currentTrack
PlayNextQueue(q) ==
    IF Len(q.tracks) = 0 THEN q
    ELSE [q EXCEPT !.currentTrack = Head(q.tracks), !.tracks = Tail(q.tracks)]

\* playNext -> play, up to its await: the stream request for the new
\* currentTrack, on the player registered for the guild at that moment
PlayNextLoads(g, q, caller) ==
    IF Len(q.tracks) = 0 \/ ~HasConnection(g) THEN {}
    ELSE {[guild |-> g, player |-> connections[g].player,
           track |-> Head(q.tracks), caller |-> caller]}

\* addTrack putting the Track at the front of tracks
AddTrackPush_Front(q, t) ==
    [q EXCEPT !.tracks = <<t>> \o q.tracks]

\* addTrack after the resolution: push, and start playing if nothing is
AddTrackPush(q, t) ==
    [q EXCEPT !.tracks = Append(q.tracks, t)]

\* the auto-start condition without its currentTrack test
AddTrackStarts_PlayingOnly(q) == ~q.isPlaying

AddTrackStarts(q) == ~q.isPlaying /\ q.currentTrack = NoTrack

\* the three player listeners that joinChannel registers
\* the Playing listener without its isPaused assignment
OnPlaying_KeepsPaused(q) == [q EXCEPT !.isPlaying = TRUE]

OnPlaying(q) == [q EXCEPT !.isPlaying = TRUE, !.isPaused = FALSE]

OnPaused(q) == [q EXCEPT !.isPaused = TRUE]

\* the Idle listener putting the Track that ended back at the end of tracks
OnIdle_Requeues(q) ==
    [q EXCEPT !.isPlaying = FALSE, !.isPaused = FALSE,
              !.tracks = IF q.currentTrack = NoTrack THEN @
                         ELSE Append(@, q.currentTrack)]

OnIdle(q) == [q EXCEPT !.isPlaying = FALSE, !.isPaused = FALSE]

\* the clamp without its lower end
ClampVolume_NoFloor(v) == IF v < 100 THEN v ELSE 100

\* setVolume's clamp
ClampVolume(v) ==
    LET lo == IF v < 100 THEN v ELSE 100
    IN  IF lo > 0 THEN lo ELSE 0

\* shuffle's loop: for i from the last index down to the second, swap
\* position i with a random position j <= i; FisherYates(S, i) is the set
\* of sequences the remaining rounds can leave, over every j
\* the exchange that never leaves an element in its place
Swap_Displacing(s, a, b) ==
    LET c == IF a = b THEN 1 ELSE b
    IN  [k \in 1..Len(s) |-> IF k = a THEN s[c] ELSE IF k = c THEN s[a] ELSE s[k]]

Swap(s, a, b) ==
    [k \in 1..Len(s) |-> IF k = a THEN s[b] ELSE IF k = b THEN s[a] ELSE s[k]]

RECURSIVE FisherYates(_, _)
FisherYates(S, i) ==
    IF i <= 1 THEN S
    ELSE FisherYates({Swap(s, i, j) : s \in S, j \in 1..i}, i - 1)

\* shuffle permuting on either edge of the flag
ShuffleQueues_EitherEdge(q) ==
    LET on == ~q.shuffle
        orders == IF Len(q.tracks) > 1
                  THEN FisherYates({q.tracks}, Len(q.tracks))
                  ELSE {q.tracks}
    IN  {[q EXCEPT !.shuffle = on, !.tracks = o] : o \in orders}

\* shuffle: the flag flips, and the tracks are permuted when it is now on
ShuffleQueues(q) ==
    LET on == ~q.shuffle
        orders == IF on /\ Len(q.tracks) > 1
                  THEN FisherYates({q.tracks}, Len(q.tracks))
                  ELSE {q.tracks}
    IN  {[q EXCEPT !.shuffle = on, !.tracks = o] : o \in orders}

\* splice taking the index as a position counted from one
Splice_FromOne(s, idx) ==
    [k \in 1..(Len(s) - 1) |-> IF k < idx THEN s[k] ELSE s[k + 1]]

\* Array.splice(index, 1)
Splice(s, idx) == [k \in 1..(Len(s) - 1) |-> IF k <= idx THEN s[k] ELSE s[k + 1]]

\* AudioPlayer.stop(): an idle player ignores it, any other keeps its state
\* and ends its resource
PlayerStop(p) == IF p.status = "idle" THEN p ELSE [p EXCEPT !.stopping = TRUE]

\* the player whose subscription the guild's connection holds
Subscribed(p) ==
    /\ HasConnection(players[p].guild)
    /\ connections[players[p].guild].player = p


\* ----------------------------------------------------------- /play command
\* handlePlayCommand calling joinChannel without looking at the existing
\* connection
PlayCommand_AlwaysJoins(g, ch) ==
    /\ ~crashed
    /\ Commands < MaxTracks
    /\ PlayerIds \ DOMAIN players # {}
    /\ joins' = joins \cup {[guild |-> g, channel |-> ch, player |-> NextPlayer]}
    /\ players' = MapSet(players, NextPlayer, NewPlayer(g))
    /\ UNCHANGED <<connections, queues, resolving, results, loads, crashed,
                   conflicts, replying, emitted, stats, socket>>

\* handlePlayCommand after deferReply.  A guild connected to another channel:
\* reply and return.  A guild without a connection: joinChannel up to
\* `await entersState`.  A guild connected to this channel: no join,
\* addTrack up to `await search`.
PlayCommand(g, ch) ==
    /\ ~crashed
    /\ Commands < MaxTracks
    /\ IF HasConnection(g) /\ connections[g].voiceChannel # ch
       THEN /\ conflicts' = conflicts + 1
            /\ UNCHANGED <<players, joins, resolving>>
       ELSE /\ conflicts' = conflicts
            /\ IF ~HasConnection(g)
               THEN /\ PlayerIds \ DOMAIN players # {}
                    /\ joins' = joins \cup
                           {[guild |-> g, channel |-> ch, player |-> NextPlayer]}
                    /\ players' = MapSet(players, NextPlayer, NewPlayer(g))
                    /\ UNCHANGED resolving
               ELSE /\ resolving' = resolving \cup {[guild |-> g, track |-> NextTrack]}
                    /\ UNCHANGED <<players, joins>>
    /\ UNCHANGED <<connections, queues, results, loads, crashed, replying,
                   emitted, stats, socket>>

\* the joinChannel call that created player p
JoinOf(p) == CHOOSE j \in joins : j.player = p

\* joinChannel registering the connection without creating the Queue
JoinReady_NoQueue(p) ==
    /\ ~crashed
    /\ \E j \in joins : j.player = p
    /\ LET j == JoinOf(p) IN
        /\ joins' = joins \ {j}
        /\ connections' = MapSet(connections, j.guild,
                                 [player |-> j.player, voiceChannel |-> j.channel])
        /\ players' = Collect(players, connections', joins', loads)
        /\ resolving' = resolving \cup {[guild |-> j.guild, track |-> NextTrack]}
        /\ UNCHANGED <<queues, results, loads, crashed, conflicts, replying,
                       emitted, stats, socket>>

\* joinChannel resumed with the connection ready: subscribe the new player,
\* register the connection, create the Queue if the guild has none, attach
\* the listeners; handlePlayCommand then calls addTrack, which suspends on
\* the provider search
JoinReady(p) ==
    /\ ~crashed
    /\ \E j \in joins : j.player = p
    /\ LET j == JoinOf(p) IN
        /\ joins' = joins \ {j}
        /\ connections' = MapSet(connections, j.guild,
                                 [player |-> j.player, voiceChannel |-> j.channel])
        /\ queues' = IF HasQueue(j.guild) THEN queues
                     ELSE MapSet(queues, j.guild, NewQueue)
        /\ players' = Collect(players, connections', joins', loads)
        /\ resolving' = resolving \cup {[guild |-> j.guild, track |-> NextTrack]}
        /\ UNCHANGED <<results, loads, crashed, conflicts, replying, emitted, stats, socket>>

\* joinChannel registering the connection before it waits for it, so that a
\* timed-out join leaves it registered
JoinTimeout_Registers(p) ==
    /\ ~crashed
    /\ \E j \in joins : j.player = p
    /\ joins' = joins \ {JoinOf(p)}
    /\ connections' = MapSet(connections, JoinOf(p).guild,
                             [player |-> p, voiceChannel |-> JoinOf(p).channel])
    /\ players' = Collect(players, connections', joins', loads)
    /\ UNCHANGED <<queues, resolving, results, loads, crashed,
                   conflicts, replying, emitted, stats, socket>>

\* joinChannel resumed with entersState rejected after 30 s: return false,
\* and handlePlayCommand replies that the join failed
JoinTimeout(p) ==
    /\ ~crashed
    /\ \E j \in joins : j.player = p
    /\ joins' = joins \ {JoinOf(p)}
    /\ players' = Collect(players, connections, joins', loads)
    /\ UNCHANGED <<connections, queues, resolving, results, loads, crashed,
                   conflicts, replying, emitted, stats, socket>>

\* the addTrack call that creates Track t
ResolutionOf(t) == CHOOSE r \in resolving : r.track = t

\* addTrack calls answered one after the other, in the order they were made
ResolveOk_InOrder(t) ==
    /\ ~crashed
    /\ \E r \in resolving : r.track = t
    /\ \A r \in resolving : t <= r.track
    /\ LET r == ResolutionOf(t) IN
        /\ resolving' = resolving \ {r}
        /\ results' = MapSet(results, r.track, [guild |-> r.guild, ok |-> TRUE])
        /\ IF HasQueue(r.guild)
           THEN LET q == AddTrackPush(queues[r.guild], r.track) IN
                IF AddTrackStarts(q)
                THEN /\ queues' = [queues EXCEPT ![r.guild] = PlayNextQueue(q)]
                     /\ loads' = loads \cup PlayNextLoads(r.guild, q, "addTrack")
                ELSE /\ queues' = [queues EXCEPT ![r.guild] = q]
                     /\ loads' = loads
           ELSE UNCHANGED <<queues, loads>>
        /\ replying' = replying \cup {r}
        /\ UNCHANGED <<connections, players, joins, crashed, conflicts, emitted, stats, socket>>

\* addTrack resumed with a Track: push it, playNext if nothing is playing
ResolveOk(t) ==
    /\ ~crashed
    /\ \E r \in resolving : r.track = t
    /\ LET r == ResolutionOf(t) IN
        /\ resolving' = resolving \ {r}
        /\ results' = MapSet(results, r.track, [guild |-> r.guild, ok |-> TRUE])
        /\ IF HasQueue(r.guild)
           THEN LET q == AddTrackPush(queues[r.guild], r.track) IN
                IF AddTrackStarts(q)
                THEN /\ queues' = [queues EXCEPT ![r.guild] = PlayNextQueue(q)]
                     /\ loads' = loads \cup PlayNextLoads(r.guild, q, "addTrack")
                ELSE /\ queues' = [queues EXCEPT ![r.guild] = q]
                     /\ loads' = loads
           ELSE UNCHANGED <<queues, loads>>
        /\ replying' = replying \cup {r}
        /\ UNCHANGED <<connections, players, joins, crashed, conflicts, emitted, stats, socket>>

\* addTrack leaving the Track it could not resolve in the Queue
ResolveFail_Pushes(t) ==
    /\ ~crashed
    /\ \E r \in resolving : r.track = t
    /\ LET r == ResolutionOf(t) IN
        /\ resolving' = resolving \ {r}
        /\ results' = MapSet(results, r.track, [guild |-> r.guild, ok |-> FALSE])
        /\ queues' = IF HasQueue(r.guild)
                     THEN [queues EXCEPT ![r.guild] = AddTrackPush(@, r.track)]
                     ELSE queues
        /\ UNCHANGED <<connections, players, joins, loads, crashed, conflicts, replying, emitted, stats, socket>>

\* addTrack resumed with the provider call thrown or without a candidate:
\* return null, and handlePlayCommand replies that nothing was found
ResolveFail(t) ==
    /\ ~crashed
    /\ \E r \in resolving : r.track = t
    /\ LET r == ResolutionOf(t) IN
        /\ resolving' = resolving \ {r}
        /\ results' = MapSet(results, r.track, [guild |-> r.guild, ok |-> FALSE])
        /\ UNCHANGED <<connections, queues, players, joins, loads, crashed,
                       conflicts, replying, emitted, stats, socket>>

\* ------------------------------------------------------- stream and sink
\* the play call that requested the stream of Track t for player p
LoadOf(p, t) == CHOOSE l \in loads : l.player = p /\ l.track = t

\* play resumed with the stream: player.play(resource) on the player that
\* play read from the connection before the await
StreamLoaded(p, t) ==
    /\ ~crashed
    /\ \E l \in loads : l.player = p /\ l.track = t
    /\ LET l == LoadOf(p, t) IN
        /\ loads' = loads \ {l}
        /\ players' = [players EXCEPT ![l.player] =
                [@ EXCEPT !.status = "buffering", !.resource = l.track, !.stopping = FALSE]]
        /\ UNCHANGED <<connections, queues, joins, resolving, results,
                       crashed, conflicts, replying, emitted, stats, socket>>

\* play resumed with stream() thrown: log, return false
StreamFailed(p, t) ==
    /\ ~crashed
    /\ \E l \in loads : l.player = p /\ l.track = t
    /\ LET l == LoadOf(p, t) IN
        /\ loads' = loads \ {l}
        /\ players' = Collect(players, connections, joins, loads')
        /\ UNCHANGED <<connections, queues, joins, resolving, results,
                       crashed, conflicts, replying, emitted, stats, socket>>

\* the sink confirms the stream start: Playing listener
PlayerStarted(p) ==
    /\ ~crashed
    /\ p \in DOMAIN players
    /\ players[p].status = "buffering"
    /\ players' = [players EXCEPT ![p].status = "playing"]
    /\ LET g == players[p].guild IN
        /\ IF HasQueue(g)
           THEN queues' = [queues EXCEPT ![g] = OnPlaying(@)] /\ crashed' = crashed
           ELSE queues' = queues /\ crashed' = TRUE
    /\ UNCHANGED <<connections, joins, resolving, results, loads, conflicts, replying, emitted, stats, socket>>

\* the Idle listener with a playNext that reads the head of tracks without
\* taking it out
PlayerEnded_KeepsHead(p) ==
    /\ ~crashed
    /\ p \in DOMAIN players
    /\ players[p].status = "playing"
    /\ LET g == players[p].guild IN
        /\ IF HasQueue(g)
           THEN LET q == OnIdle(queues[g]) IN
                /\ queues' = [queues EXCEPT ![g] =
                        [q EXCEPT !.currentTrack =
                            IF Len(q.tracks) = 0 THEN @ ELSE Head(q.tracks)]]
                /\ loads' = loads \cup PlayNextLoads(g, q, "Idle")
                /\ crashed' = crashed
           ELSE queues' = queues /\ loads' = loads /\ crashed' = TRUE
        /\ players' = Collect([players EXCEPT ![p] = NewPlayer(g)],
                              connections, joins, loads')
    /\ UNCHANGED <<connections, joins, resolving, results, conflicts, replying, emitted, stats, socket>>

\* the sink signals completion (end of the stream, or of a stopped
\* resource): Idle listener, which runs playNext
PlayerEnded(p) ==
    /\ ~crashed
    /\ p \in DOMAIN players
    /\ players[p].status = "playing"
    /\ LET g == players[p].guild IN
        /\ IF HasQueue(g)
           THEN LET q == OnIdle(queues[g]) IN
                /\ queues' = [queues EXCEPT ![g] = PlayNextQueue(q)]
                /\ loads' = loads \cup PlayNextLoads(g, q, "Idle")
                /\ crashed' = crashed
           ELSE queues' = queues /\ loads' = loads /\ crashed' = TRUE
        /\ players' = Collect([players EXCEPT ![p] = NewPlayer(g)],
                              connections, joins, loads')
    /\ UNCHANGED <<connections, joins, resolving, results, conflicts, replying, emitted, stats, socket>>

\* the stream of the resource fails while the player holds it: the player
\* emits 'error'. joinChannel registers listeners for Playing, Paused and
\* Idle only, and an EventEmitter that emits 'error' with no listener for it
\* throws the error; nothing catches it in the stream's callback
PlayerErrored(p) ==
    /\ ~crashed
    /\ p \in DOMAIN players
    /\ players[p].status \in {"buffering", "playing", "paused", "autopaused"}
    /\ crashed' = TRUE
    /\ UNCHANGED <<connections, queues, players, joins, resolving, results,
                   loads, conflicts, replying, emitted, stats, socket>>

\* a playing player whose connection was destroyed or re-subscribed has no
\* subscriber left and pauses itself; no listener is registered for that
PlayerAutoPaused(p) ==
    /\ ~crashed
    /\ p \in DOMAIN players
    /\ ~Subscribed(p)
    /\ players[p].status = "playing"
    /\ players' = Collect([players EXCEPT ![p].status = "autopaused"],
                          connections, joins, loads)
    /\ UNCHANGED <<connections, queues, joins, resolving, results, loads,
                   crashed, conflicts, replying, emitted, stats, socket>>


\* ------------------------------------------------- methods of the manager
\* The methods say what they do to the manager and the players; who called
\* them decides whether a 'queue-update' event follows.

\* pause: player.pause() takes effect on a playing player only, and the
\* Paused listener runs inside the call
pause(g) ==
    /\ ~crashed
    /\ HasConnection(g)
    /\ LET p == connections[g].player IN
        IF players[p].status = "playing"
        THEN /\ players' = [players EXCEPT ![p].status = "paused"]
             /\ IF HasQueue(g)
                THEN queues' = [queues EXCEPT ![g] = OnPaused(@)] /\ crashed' = crashed
                ELSE queues' = queues /\ crashed' = TRUE
        ELSE UNCHANGED <<players, queues, crashed>>
    /\ UNCHANGED <<connections, joins, resolving, results, loads, conflicts>>

\* resume: player.unpause() takes effect on a paused player only, and the
\* Playing listener runs inside the call
resume(g) ==
    /\ ~crashed
    /\ HasConnection(g)
    /\ LET p == connections[g].player IN
        IF players[p].status = "paused"
        THEN /\ players' = [players EXCEPT ![p].status = "playing"]
             /\ IF HasQueue(g)
                THEN queues' = [queues EXCEPT ![g] = OnPlaying(@)] /\ crashed' = crashed
                ELSE queues' = queues /\ crashed' = TRUE
        ELSE UNCHANGED <<players, queues, crashed>>
    /\ UNCHANGED <<connections, joins, resolving, results, loads, conflicts>>

\* skip: player.stop()
skip(g) ==
    /\ ~crashed
    /\ HasConnection(g)
    /\ players' = [players EXCEPT ![connections[g].player] = PlayerStop(@)]
    /\ UNCHANGED <<connections, queues, joins, resolving, results, loads,
                   crashed, conflicts>>

\* stop leaving the Track that was current as the one pending Track
stop_KeepsCurrentPending(g) ==
    /\ ~crashed
    /\ HasConnection(g)
    /\ HasQueue(g)
    /\ players' = [players EXCEPT ![connections[g].player] = PlayerStop(@)]
    /\ queues' = [queues EXCEPT
            ![g].tracks = IF queues[g].currentTrack = NoTrack THEN <<>>
                          ELSE <<queues[g].currentTrack>>]
    /\ UNCHANGED <<connections, joins, resolving, results, loads, crashed,
                   conflicts>>

\* stop: player.stop(), then clear tracks and currentTrack
stop(g) ==
    /\ ~crashed
    /\ HasConnection(g)
    /\ HasQueue(g)
    /\ players' = [players EXCEPT ![connections[g].player] = PlayerStop(@)]
    /\ queues' = [queues EXCEPT ![g].tracks = <<>>, ![g].currentTrack = NoTrack]
    /\ UNCHANGED <<connections, joins, resolving, results, loads, crashed,
                   conflicts>>

\* shuffle
shuffle(g) ==
    /\ ~crashed
    /\ HasQueue(g)
    /\ \E q \in ShuffleQueues(queues[g]) : queues' = [queues EXCEPT ![g] = q]
    /\ UNCHANGED <<connections, players, joins, resolving, results, loads,
                   crashed, conflicts>>

\* setVolume ending the stream that plays
setVolume_StopsPlayer(g, v) ==
    /\ ~crashed
    /\ HasQueue(g)
    /\ queues' = [queues EXCEPT ![g].volume = ClampVolume(v)]
    /\ players' = IF HasConnection(g)
                  THEN [players EXCEPT ![connections[g].player] = PlayerStop(@)]
                  ELSE players
    /\ UNCHANGED <<connections, joins, resolving, results, loads, crashed,
                   conflicts>>

\* setVolume
setVolume(g, v) ==
    /\ ~crashed
    /\ HasQueue(g)
    /\ queues' = [queues EXCEPT ![g].volume = ClampVolume(v)]
    /\ UNCHANGED <<connections, players, joins, resolving, results, loads,
                   crashed, conflicts>>

\* removeTrack's test letting the index one past the end through
RemoveTrackFails_OnePastEnd(g, idx) ==
    ~HasQueue(g) \/ idx < 0 \/ idx > Len(queues[g].tracks)

\* removeTrack's test: no Queue, or an index outside the tracks
RemoveTrackFails(g, idx) ==
    ~HasQueue(g) \/ idx < 0 \/ idx >= Len(queues[g].tracks)

\* removeTrack: return false and leave everything as it is, or splice
removeTrack(g, idx) ==
    /\ ~crashed
    /\ IF RemoveTrackFails(g, idx)
       THEN UNCHANGED queues
       ELSE queues' = [queues EXCEPT ![g].tracks = Splice(@, idx)]
    /\ UNCHANGED <<connections, players, joins, resolving, results, loads,
                   crashed, conflicts>>

\* ---------------------------------------------------------------- commands
\* the operations of the manager, taken by themselves
Pause(g) == pause(g) /\ UNCHANGED <<replying, emitted, stats, socket>>

Resume(g) == resume(g) /\ UNCHANGED <<replying, emitted, stats, socket>>

Skip(g) == skip(g) /\ UNCHANGED <<replying, emitted, stats, socket>>

Stop(g) == stop(g) /\ UNCHANGED <<replying, emitted, stats, socket>>

Shuffle(g) == shuffle(g) /\ UNCHANGED <<replying, emitted, stats, socket>>

SetVolume(g, v) == setVolume(g, v) /\ UNCHANGED <<replying, emitted, stats, socket>>

RemoveTrack(g, idx) == removeTrack(g, idx) /\ UNCHANGED <<replying, emitted, stats, socket>>

\* disconnect forgetting the connection and keeping the Queue
disconnect_KeepsQueue(m, g) ==
    IF g \notin DOMAIN m.connections THEN m
    ELSE [connections |-> MapDelete(m.connections, g), queues |-> m.queues]

\* disconnect on the two maps of the manager: without a connection it
\* returns false, otherwise it destroys the connection and deletes the
\* entries of the guild from both maps
disconnect(m, g) ==
    IF g \notin DOMAIN m.connections THEN m
    ELSE [connections |-> MapDelete(m.connections, g),
          queues |-> MapDelete(m.queues, g)]

\* cleanup(): disconnect for every guild of the connections map
RECURSIVE DisconnectEach(_, _)
DisconnectEach(m, S) ==
    IF S = {} THEN m
    ELSE LET g == CHOOSE x \in S : TRUE
         IN  DisconnectEach(disconnect(m, g), S \ {g})

\* cleanup() stopping after the first guild
cleanup_OneGuild(m) ==
    IF DOMAIN m.connections = {} THEN m
    ELSE disconnect(m, CHOOSE g \in DOMAIN m.connections : TRUE)

cleanup(m) == DisconnectEach(m, DOMAIN m.connections)

\* the two maps of the manager
Maps == [connections |-> connections, queues |-> queues]

\* cleanup(guildId), called when the bot leaves a guild
Disconnect(g) ==
    /\ ~crashed
    /\ connections' = disconnect(Maps, g).connections
    /\ queues' = disconnect(Maps, g).queues
    /\ players' = Collect(players, connections', joins, loads)
    /\ UNCHANGED <<joins, resolving, results, loads, crashed, conflicts, replying, emitted, stats, socket>>

\* cleanup(), called by shutdown before it awaits client.destroy()
Cleanup ==
    /\ ~crashed
    /\ connections' = cleanup(Maps).connections
    /\ queues' = cleanup(Maps).queues
    /\ players' = Collect(players, connections', joins, loads)
    /\ UNCHANGED <<joins, resolving, results, loads, crashed, conflicts, replying, emitted, stats, socket>>

\* getActiveConnections and getTotalTracks
getActiveConnections == Cardinality(DOMAIN connections)

RECURSIVE SumTracks(_, _)
SumTracks(qs, S) ==
    IF S = {} THEN 0
    ELSE LET g == CHOOSE x \in S : TRUE
         IN  Len(qs[g].tracks) + SumTracks(qs, S \ {g})

\* getTotalTracks counting the Tracks being played as well
getTotalTracks_WithCurrent ==
    SumTracks(queues, DOMAIN queues)
        + Cardinality({g \in DOMAIN queues : queues[g].currentTrack # NoTrack})

getTotalTracks == SumTracks(queues, DOMAIN queues)

\* the callback of the stats interval: read the two figures and emit them
\* to every socket (uptime, serverCount and memoryUsage of the event do not
\* come from the manager and are left out)
StatsTick ==
    /\ ~crashed
    /\ stats' = <<[activeConnections |-> getActiveConnections,
                   totalTracks |-> getTotalTracks]>>
    /\ UNCHANGED <<connections, queues, players, joins, resolving, results,
                   loads, crashed, conflicts, replying, emitted, socket>>

\* ---------------------------------------------------------------- resolver
\* The queries addTrack is called with, one of each form its two tests tell
\* apart, and what the tests and the id extraction answer for them.
YouTubeQuery == "https://youtu.be/v1"

SpotifyQuery == "https://open.spotify.com/track/s1"

TextQuery == "daft punk one more time"

Queries == {YouTubeQuery, SpotifyQuery, TextQuery}

isYouTubeUrl(q) == q = YouTubeQuery

isSpotifyUrl(q) == q = SpotifyQuery

NoId == "null"

extractSpotifyTrackId(q) == IF q = SpotifyQuery THEN "s1" ELSE NoId

\* what spotify.getTrack answers: it rejects, or it resolves to the body of
\* the one track of the catalog
Rejected == [rejected |-> TRUE, artist |-> "", name |-> "", duration_ms |-> 0,
             image |-> <<>>]

CatalogTrack ==
    [rejected |-> FALSE, artist |-> "Daft Punk", name |-> "One More Time",
     duration_ms |-> 320999, image |-> <<"https://i.scdn.co/image/s1">>]

Lookups == {Rejected, CatalogTrack}

\* the search text getSpotifyTrack builds, and the text of a query as given
ArtistAndName(body) == <<body.artist, " ", body.name>>

Raw(q) == <<q>>

SearchTexts == {Raw(q) : q \in Queries} \cup {ArtistAndName(CatalogTrack)}

\* the first candidate the primary provider has for a search text
Video(text) ==
    [id |-> <<"id of">> \o text, url |-> <<"https://www.youtube.com/watch?v=">> \o text,
     title |-> <<"video for">> \o text, durationInSec |-> 200,
     thumbnail |-> <<"thumbnail of">> \o text]

\* the search texts for which the primary provider has a candidate: none,
\* one of them, or all (an addTrack call searches once at most)
Hits == {{}} \cup {{x} : x \in SearchTexts} \cup {SearchTexts}

\* what the providers do during one addTrack call: whether the manager has
\* its catalog client, what the lookup answers, and what the search finds
Environments ==
    [spotify : BOOLEAN, lookup : Lookups, hits : Hits]

\* search(text, {limit: 1})
search(text, e) == IF text \in e.hits THEN <<Video(text)>> ELSE <<>>

\* a thrown Error, which addTrack's catch turns into null
Thrown == [id |-> <<>>, title |-> <<>>, duration |-> 0, thumbnail |-> <<>>,
           url |-> <<>>, source |-> "thrown"]

getYouTubeTrack(q, e) ==
    LET info == search(Raw(q), e) IN
    IF Len(info) = 0 THEN Thrown
    ELSE [id |-> info[1].id, title |-> info[1].title,
          duration |-> info[1].durationInSec, thumbnail |-> info[1].thumbnail,
          url |-> info[1].url, source |-> "youtube"]

\* getSpotifyTrack searching for the URL it was given
getSpotifyTrack_RawSearch(q, e) ==
    IF ~e.spotify THEN Thrown
    ELSE IF extractSpotifyTrackId(q) = NoId THEN Thrown
    ELSE IF e.lookup.rejected THEN Thrown
    ELSE LET youtubeResults == search(Raw(q), e) IN
         IF Len(youtubeResults) = 0 THEN Thrown
         ELSE [id |-> youtubeResults[1].id,
               title |-> <<e.lookup.artist, " - ", e.lookup.name>>,
               duration |-> e.lookup.duration_ms \div 1000,
               thumbnail |-> e.lookup.image,
               url |-> youtubeResults[1].url, source |-> "spotify"]

getSpotifyTrack(q, e) ==
    IF ~e.spotify THEN Thrown
    ELSE IF extractSpotifyTrackId(q) = NoId THEN Thrown
    ELSE IF e.lookup.rejected THEN Thrown
    ELSE LET youtubeResults == search(ArtistAndName(e.lookup), e) IN
         IF Len(youtubeResults) = 0 THEN Thrown
         ELSE [id |-> youtubeResults[1].id,
               title |-> <<e.lookup.artist, " - ", e.lookup.name>>,
               duration |-> e.lookup.duration_ms \div 1000,
               thumbnail |-> e.lookup.image,
               url |-> youtubeResults[1].url, source |-> "spotify"]

searchYouTube(q, e) ==
    LET found == search(Raw(q), e) IN
    IF Len(found) = 0 THEN Thrown
    ELSE [id |-> found[1].id, title |-> found[1].title,
          duration |-> found[1].durationInSec, thumbnail |-> found[1].thumbnail,
          url |-> found[1].url, source |-> "youtube"]

\* the try block of addTrack up to the Track
Resolve(q, e) ==
    IF isYouTubeUrl(q) THEN getYouTubeTrack(q, e)
    ELSE IF isSpotifyUrl(q) THEN getSpotifyTrack(q, e)
    ELSE searchYouTube(q, e)

\* an addTrack call resumed, its query having been q and the providers
\* having behaved as e says: with a Track it goes on as ResolveOk does, with
\* a thrown Error it returns null as ResolveFail does
AddTrackResumed(t, q, e) ==
    /\ ~crashed
    /\ \E r \in resolving : r.track = t
    /\ LET r == ResolutionOf(t)
           track == Resolve(q, e)
       IN
        /\ resolving' = resolving \ {r}
        /\ results' = MapSet(results, r.track,
                             [guild |-> r.guild, ok |-> track # Thrown,
                              query |-> q, track |-> track])
        /\ IF track # Thrown /\ HasQueue(r.guild)
           THEN LET pushed == AddTrackPush(queues[r.guild], r.track) IN
                IF AddTrackStarts(pushed)
                THEN /\ queues' = [queues EXCEPT ![r.guild] = PlayNextQueue(pushed)]
                     /\ loads' = loads \cup PlayNextLoads(r.guild, pushed, "addTrack")
                ELSE /\ queues' = [queues EXCEPT ![r.guild] = pushed]
                     /\ loads' = loads
           ELSE UNCHANGED <<queues, loads>>
        /\ replying' = IF track # Thrown THEN replying \cup {r} ELSE replying
        /\ UNCHANGED <<connections, players, joins, crashed, conflicts, emitted, stats, socket>>

\* ------------------------------------------------------------- broadcaster
\* broadcastQueueUpdate, and the emit of the socket handlers: the event
\* carries the Queue as it is when the handler gets there; no Queue, no event
broadcastQueueUpdate(g) ==
    /\ emitted' = IF g \in DOMAIN queues' THEN MapSet(emitted, g, queues'[g])
                  ELSE emitted
    /\ UNCHANGED stats

\* a 'queue-update' event as a client receives it
Event(g, q) == [guild |-> g, queue |-> q]

\* what an emission for guild g does to the client: io.emit reaches every
\* connected client, io.to(room).emit those that joined the guild's room,
\* and either sends the Queue as it is then, if there is one
Deliver(g, toAll) ==
    socket' = IF /\ g \in DOMAIN queues'
                 /\ socket.connected
                 /\ toAll \/ g \in socket.rooms
              THEN [socket EXCEPT !.inbox = Append(@, Event(g, queues'[g]))]
              ELSE socket

\* a dashboard connects
SocketConnected ==
    /\ ~crashed
    /\ ~socket.connected
    /\ socket' = [socket EXCEPT !.connected = TRUE]
    /\ UNCHANGED <<connections, queues, players, joins, resolving, results,
                   loads, crashed, conflicts, replying, emitted, stats>>

\* socket event 'join-server' answering with every event emitted for the
\* guild so far, of which the model keeps the latest
OnJoinServer_Replays(g) ==
    /\ ~crashed
    /\ socket.connected
    /\ socket' = [socket EXCEPT
            !.rooms = @ \cup {g},
            !.inbox = LET old == IF g \in DOMAIN emitted
                                 THEN Append(@, Event(g, emitted[g])) ELSE @
                      IN  IF HasQueue(g) THEN Append(old, Event(g, queues[g]))
                          ELSE old]
    /\ UNCHANGED <<connections, queues, players, joins, resolving, results,
                   loads, crashed, conflicts, replying, emitted, stats>>

\* socket event 'join-server': join the room of the guild, then send the
\* guild's Queue to this client if it has one
OnJoinServer(g) ==
    /\ ~crashed
    /\ socket.connected
    /\ socket' = [socket EXCEPT
            !.rooms = @ \cup {g},
            !.inbox = IF HasQueue(g) THEN Append(@, Event(g, queues[g])) ELSE @]
    /\ UNCHANGED <<connections, queues, players, joins, resolving, results,
                   loads, crashed, conflicts, replying, emitted, stats>>

\* the handlePlayCommand call that got Track t from addTrack
ReplyOf(t) == CHOOSE r \in replying : r.track = t

\* handlePlayCommand resumed after editReply('Track Added to Queue'):
\* broadcast the Queue
PlayReplied(t) ==
    /\ ~crashed
    /\ \E r \in replying : r.track = t
    /\ replying' = replying \ {ReplyOf(t)}
    /\ UNCHANGED <<connections, queues, players, joins, resolving, results,
                   loads, crashed, conflicts>>
    /\ broadcastQueueUpdate(ReplyOf(t).guild)
    /\ Deliver(ReplyOf(t).guild, TRUE)

\* socket event 'control-player': the method named by the action, then the
\* Queue to the room of the guild when the method reported success
ControlActions == {"play", "pause", "skip", "stop", "shuffle"}

OnControlPlayer(g, action) ==
    /\ CASE action = "play" -> resume(g)
         [] action = "pause" -> pause(g)
         [] action = "skip" -> skip(g)
         [] action = "stop" -> stop(g)
         [] action = "shuffle" -> shuffle(g)
    /\ broadcastQueueUpdate(g)
    /\ Deliver(g, FALSE)
    /\ UNCHANGED replying

\* socket event 'set-volume'
OnSetVolume(g, v) ==
    /\ setVolume(g, v)
    /\ broadcastQueueUpdate(g)
    /\ Deliver(g, FALSE)
    /\ UNCHANGED replying

\* socket event 'remove-track': removeTrack reports failure for an index
\* outside the tracks, and then nothing is emitted
OnRemoveTrack(g, idx) ==
    /\ removeTrack(g, idx)
    /\ IF RemoveTrackFails(g, idx)
       THEN UNCHANGED <<emitted, stats, socket>>
       ELSE broadcastQueueUpdate(g) /\ Deliver(g, FALSE)
    /\ UNCHANGED replying

\* ------------------------------------------------------------ specification
VolumeInputs == {-5, 50, 150}

\* what a /play command goes through after its first step, up to the point
\* where the sink plays
Running ==
    \/ \E p \in PlayerIds : JoinReady(p)
    \/ \E p \in PlayerIds : JoinTimeout(p)
    \/ \E t \in Tracks : ResolveOk(t)
    \/ \E t \in Tracks : ResolveFail(t)
    \/ \E p \in PlayerIds, t \in Tracks : StreamLoaded(p, t)
    \/ \E p \in PlayerIds : PlayerStarted(p)
    \/ \E p \in PlayerIds : PlayerAutoPaused(p)

\* /play commands on the guilds G from the voice channels C, up to the
\* point where the sink plays
Adding(G, C) ==
    \/ \E g \in G, ch \in C : PlayCommand(g, ch)
    \/ Running

\* the same with the completion signal, the playback commands and the
\* disconnect; every stream request succeeds
PlaybackOk(G, C) ==
    \/ Adding(G, C)
    \/ \E p \in PlayerIds : PlayerEnded(p)
    \/ \E g \in G : Pause(g)
    \/ \E g \in G : Resume(g)
    \/ \E g \in G : Skip(g)
    \/ \E g \in G : Stop(g)
    \/ \E g \in G : Disconnect(g)

\* the same, stream requests failing as well
Playback(G, C) ==
    \/ PlaybackOk(G, C)
    \/ \E p \in PlayerIds, t \in Tracks : StreamFailed(p, t)

\* one guild, its members in one voice channel
Next == Playback({"g1"}, {"cX"})

Spec == Init /\ [][Next]_vars

\* the same, every stream request succeeding
NextLoadsOk == PlaybackOk({"g1"}, {"cX"})

SpecLoadsOk == Init /\ [][NextLoadsOk]_vars

\* two guilds, members in two voice channels, /play commands only, no
\* completion signal
NextAdd ==
    \/ Adding(Guilds, Channels)
    \/ \E p \in PlayerIds, t \in Tracks : StreamFailed(p, t)

SpecAdd == Init /\ [][NextAdd]_vars

\* the indexes a 'remove-track' event carries: the ends of the pending
\* sequence and the first position outside it on either side
RemoveInputs == -1..MaxTracks

\* one guild with the dashboard attached: /play commands, the sink, and the
\* socket events of the dashboard, each followed by its 'queue-update'
NextBroadcast ==
    \/ Adding({"g1"}, {"cX"})
    \/ \E t \in Tracks : PlayReplied(t)
    \/ \E p \in PlayerIds : PlayerEnded(p)
    \/ \E a \in ControlActions : OnControlPlayer("g1", a)
    \/ \E v \in VolumeInputs : OnSetVolume("g1", v)
    \/ \E idx \in RemoveInputs : OnRemoveTrack("g1", idx)

SpecBroadcast == Init /\ [][NextBroadcast]_vars

\* the levels setVolume is called with: on both sides of either end of the
\* range, and inside it
VolumeLevels == {-5, -1, 1, 50, 99, 101, 150}

\* one guild: /play commands, the sink, pause, resume and setVolume
NextVolume ==
    \/ Adding({"g1"}, {"cX"})
    \/ \E p \in PlayerIds : PlayerEnded(p)
    \/ Pause("g1")
    \/ Resume("g1")
    \/ \E v \in VolumeLevels : SetVolume("g1", v)

SpecVolume == Init /\ [][NextVolume]_vars

\* one guild: /play commands, the sink, skip, and the two commands that
\* edit the pending sequence
NextPending ==
    \/ Adding({"g1"}, {"cX"})
    \/ \E p \in PlayerIds : PlayerEnded(p)
    \/ Skip("g1")
    \/ Shuffle("g1")
    \/ \E idx \in RemoveInputs : RemoveTrack("g1", idx)

SpecPending == Init /\ [][NextPending]_vars

\* one guild: /play commands, the sink, and skip and shuffle from the
\* dashboard, each followed by its 'queue-update'
NextAdvance ==
    \/ Adding({"g1"}, {"cX"})
    \/ \E p \in PlayerIds : PlayerEnded(p)
    \/ \E action \in {"skip", "shuffle"} : OnControlPlayer("g1", action)

SpecAdvance == Init /\ [][NextAdvance]_vars

\* one guild: /play commands, the sink, pause from the dashboard (followed
\* by its 'queue-update') and resume
NextPause ==
    \/ Adding({"g1"}, {"cX"})
    \/ \E p \in PlayerIds : PlayerEnded(p)
    \/ OnControlPlayer("g1", "pause")
    \/ Resume("g1")

SpecPause == Init /\ [][NextPause]_vars

\* the /play commands of the specifications with two guilds
MaxPlays == 2

\* a /play command on one of the guilds G, as long as fewer than MaxPlays
\* were issued
FewPlays(G, C) ==
    /\ Commands < MaxPlays
    /\ \E g \in G, ch \in C : PlayCommand(g, ch)

\* two guilds, their members in one voice channel each: /play commands, the
\* sink, and the bot leaving a guild or shutting down
NextGuilds ==
    \/ FewPlays(Guilds, {"cX"})
    \/ Running
    \/ \E p \in PlayerIds : PlayerEnded(p)
    \/ \E g \in Guilds : Disconnect(g)
    \/ Cleanup

SpecGuilds == Init /\ [][NextGuilds]_vars

\* two guilds, their members in one voice channel each: /play commands, the
\* sink and the bot leaving on both, and the playback commands on the first
NextSessions ==
    \/ FewPlays(Guilds, {"cX"})
    \/ Running
    \/ \E p \in PlayerIds : PlayerEnded(p)
    \/ Pause("g1")
    \/ Resume("g1")
    \/ Skip("g1")
    \/ Stop("g1")
    \/ \E g \in Guilds : Disconnect(g)

SpecSessions == Init /\ [][NextSessions]_vars

\* one guild: /play commands with each form of query, the providers
\* answering in every way, and the sink
NextResolve ==
    \/ FewPlays({"g1"}, {"cX"})
    \/ \E p \in PlayerIds : JoinReady(p)
    \/ \E t \in Tracks, q \in Queries, e \in Environments : AddTrackResumed(t, q, e)
    \/ \E p \in PlayerIds, t \in Tracks : StreamLoaded(p, t)
    \/ \E p \in PlayerIds : PlayerStarted(p)

SpecResolve == Init /\ [][NextResolve]_vars

\* one guild, /play and every signal of the sink, the stream's failure included
NextSink ==
    \/ Adding({"g1"}, {"cX"})
    \/ \E p \in PlayerIds : PlayerEnded(p)
    \/ \E p \in PlayerIds : PlayerErrored(p)
    \/ Skip("g1")

SpecSink == Init /\ [][NextSink]_vars

\* two guilds: /play commands that all succeed, up to the stream handed to
\* the player, guild removal, and the stats interval
NextStats ==
    \/ \E g \in Guilds : PlayCommand(g, "cX")
    \/ \E p \in PlayerIds : JoinReady(p)
    \/ \E t \in Tracks : ResolveOk(t)
    \/ \E p \in PlayerIds, t \in Tracks : StreamLoaded(p, t)
    \/ \E g \in Guilds : Disconnect(g)
    \/ StatsTick

SpecStats == Init /\ [][NextStats]_vars

\* the most 'queue-update' events the client is followed through
MaxInbox == 1

\* an emitting step while the client has received fewer than MaxInbox events
Emitting ==
    /\ Len(socket.inbox) < MaxInbox
    /\ \/ \E t \in Tracks : PlayReplied(t)
       \/ OnControlPlayer("g1", "shuffle")
       \/ \E g \in Guilds : OnJoinServer(g)

\* one guild with a Session and one without, a dashboard that connects and
\* joins rooms at any time, /play commands that all succeed, up to the
\* stream request, the dashboard's shuffle control and guild removal
NextListen ==
    \/ FewPlays({"g1"}, {"cX"})
    \/ \E p \in PlayerIds : JoinReady(p)
    \/ \E t \in Tracks : ResolveOk(t)
    \/ Disconnect("g1")
    \/ SocketConnected
    \/ Emitting

SpecListen == Init /\ [][NextListen]_vars

\* one guild: /play commands and the sink, every stream request succeeding
NextLive ==
    \/ Adding({"g1"}, {"cX"})
    \/ \E p \in PlayerIds : PlayerEnded(p)

\* every await returns and every player that buffers or plays a stream
\* signals its start and its end: the event loop runs each continuation
\* and each listener that is due
Progress ==
    /\ \A p \in PlayerIds : WF_vars(JoinReady(p) \/ JoinTimeout(p))
    /\ \A t \in Tracks : WF_vars(ResolveOk(t) \/ ResolveFail(t))
    /\ \A p \in PlayerIds, t \in Tracks : WF_vars(StreamLoaded(p, t))
    /\ \A p \in PlayerIds : WF_vars(PlayerStarted(p))
    /\ \A p \in PlayerIds : WF_vars(PlayerEnded(p))

SpecLive == Init /\ [][NextLive]_vars /\ Progress

\* one guild: /play commands that all succeed, the sink, and every
\* operation that takes Tracks out of the Queue
NextTracks ==
    \/ PlayCommand("g1", "cX")
    \/ \E p \in PlayerIds : JoinReady(p)
    \/ \E t \in Tracks : ResolveOk(t)
    \/ \E p \in PlayerIds, t \in Tracks : StreamLoaded(p, t)
    \/ \E p \in PlayerIds : PlayerStarted(p)
    \/ \E p \in PlayerIds : PlayerEnded(p)
    \/ Skip("g1")
    \/ Stop("g1")
    \/ \E idx \in RemoveInputs : RemoveTrack("g1", idx)
    \/ Disconnect("g1")

SpecTracks == Init /\ [][NextTracks]_vars

\* ================================================================== claims
\* the players of guild g, registered or orphaned
PlayersOf(g) == {p \in DOMAIN players : players[p].guild = g}

\* no stream load in flight for g and no signal of a sink of g pending
Steady(g) ==
    /\ \A l \in loads : l.guild # g
    /\ \A p \in PlayersOf(g) : players[p].status \in {"idle", "paused", "autopaused"}

\* C1: in every reachable state of every Queue, isPlaying and isPaused are
\* never both true
C1_NeverPlayingAndPaused ==
    \A g \in DOMAIN queues : ~(queues[g].isPlaying /\ queues[g].isPaused)

\* C2: in every steady state in which a Queue is neither playing nor paused,
\* currentTrack is empty
C2_IdleHasNoCurrentTrack ==
    \A g \in DOMAIN queues :
        (Steady(g) /\ ~queues[g].isPlaying /\ ~queues[g].isPaused)
            => queues[g].currentTrack = NoTrack

\* C3: a completion signal (after skip, or at the natural end) on a Queue with
\* a currentTrack and no pending Track leaves the Queue idle with no
\* currentTrack
C3_CompletionOnEmptyPendingClears ==
    [][\A p \in PlayerIds :
        LET g == players[p].guild IN
        (PlayerEnded(p) /\ HasQueue(g) /\ queues[g].currentTrack # NoTrack
                        /\ queues[g].tracks = <<>>)
            => /\ queues'[g].currentTrack = NoTrack
               /\ ~queues'[g].isPlaying
               /\ ~queues'[g].isPaused]_vars


C5_AddOnIdleStarts ==
    [][\A t \in Tracks :
        LET g == ResolutionOf(t).guild
            pending == Append(queues[g].tracks, t)
        IN  (ResolveOk(t) /\ HasQueue(g) /\ Steady(g)
                          /\ ~queues[g].isPlaying /\ ~queues[g].isPaused)
                => /\ queues'[g].currentTrack = Head(pending)
                   /\ queues'[g].tracks = Tail(pending)
                   /\ \E l \in loads' \ loads :
                        l.guild = g /\ l.track = Head(pending)]_vars


\* C6: a failed resolution reports failure and changes no Queue, connection,
\* player, stream request or other call, of its own guild or of another
C6_FailedResolutionChangesNothing ==
    [][\A t \in Tracks :
        ResolveFail(t)
            => /\ queues' = queues
               /\ connections' = connections
               /\ players' = players
               /\ loads' = loads
               /\ joins' = joins
               /\ resolving' = resolving \ {ResolutionOf(t)}
               /\ ~results'[t].ok
               /\ \A u \in DOMAIN results : results'[u] = results[u]]_vars

\* C6 witness: a resolution for g1 has failed, and g1 and g2 both have a
\* Queue with a currentTrack
C6_Witness ==
    /\ \E t \in DOMAIN results : results[t].guild = "g1" /\ ~results[t].ok
    /\ HasQueue("g1") /\ queues["g1"].currentTrack # NoTrack
    /\ HasQueue("g2") /\ queues["g2"].currentTrack # NoTrack


\* the addTrack calls for guild g whose resolution succeeded
OkCount(g) ==
    Cardinality({t \in DOMAIN results : results[t].guild = g /\ results[t].ok})

\* C7 as stated: after addTrack calls only, the pending length equals the
\* count of calls whose resolution succeeded
C7_PendingEqualsSuccesses ==
    \A g \in DOMAIN queues : Len(queues[g].tracks) = OkCount(g)

\* C7 amended: after addTrack calls only and before any completion signal,
\* the pending length plus one for the Track that auto-start moved into
\* currentTrack equals the count of calls whose resolution succeeded, and a
\* failed resolution leaves every pending length unchanged
C7_PendingPlusCurrentEqualsSuccesses ==
    /\ [](\A g \in DOMAIN queues :
            Len(queues[g].tracks)
                + (IF queues[g].currentTrack # NoTrack THEN 1 ELSE 0) = OkCount(g))
    /\ [][\A t \in Tracks :
            ResolveFail(t) =>
                \A g \in DOMAIN queues :
                    Len(queues'[g].tracks) = Len(queues[g].tracks)]_vars

\* C7 witness: two resolutions for g1 succeeded and one failed; one Track is
\* pending, the other is currentTrack
C7_Witness ==
    /\ HasQueue("g1")
    /\ OkCount("g1") = 2
    /\ \E t \in DOMAIN results : results[t].guild = "g1" /\ ~results[t].ok
    /\ Len(queues["g1"].tracks) = 1
    /\ queues["g1"].currentTrack # NoTrack


\* C8: whenever the sink of a guild plays a stream (and has not been told to
\* stop it), the stream is the one of the guild's currentTrack: a stream load
\* of a superseded Track never starts playback
C8_SinkPlaysCurrentTrack ==
    \A g \in DOMAIN connections :
        LET p == connections[g].player IN
        (players[p].status = "playing" /\ ~players[p].stopping)
            => (HasQueue(g) /\ queues[g].currentTrack = players[p].resource)


\* the play order of a Queue: currentTrack, then pending front to back
PlayOrder(q) ==
    IF q.currentTrack = NoTrack THEN q.tracks ELSE <<q.currentTrack>> \o q.tracks

\* C9: the Tracks of a guild stand in play order in the order in which their
\* addTrack calls were invoked (Track numbers are invocation numbers),
\* whichever resolution completes first
C9_PlayOrderFollowsInvocation ==
    \A g \in DOMAIN queues :
        \A a, b \in 1..Len(PlayOrder(queues[g])) :
            a < b => PlayOrder(queues[g])[a] < PlayOrder(queues[g])[b]

\* C10: a /play command on a guild that has a connection never joins again
\* and leaves connection, player and Queue as they are; when the command
\* names another channel than the one the connection is bound to, it is
\* answered with the channel conflict and no addTrack is started
C10_JoinOnExistingSession ==
    [][\A g \in Guilds, ch \in Channels :
        (HasConnection(g) /\ PlayCommand(g, ch))
            => /\ connections' = connections
               /\ queues' = queues
               /\ players' = players
               /\ joins' = joins
               /\ connections[g].voiceChannel # ch
                    => /\ conflicts' = conflicts + 1
                       /\ resolving' = resolving]_vars

\* C10 witness: a /play command for another channel has been refused on a
\* guild that has a connection; the guild is bound to cX and its Queue has a
\* currentTrack
C10_Witness ==
    /\ conflicts > 0
    /\ HasConnection("g1")
    /\ connections["g1"].voiceChannel = "cX"
    /\ HasQueue("g1")
    /\ queues["g1"].currentTrack # NoTrack


\* C11: a joinChannel call that becomes ready for a guild that already has a
\* connection registered leaves that connection (its player and its voice
\* channel) as it is: the second of two concurrent /play commands never
\* replaces or relocates the connection of the first
C11_SecondJoinKeepsConnection ==
    [][\A p \in PlayerIds :
        (JoinReady(p) /\ HasConnection(JoinOf(p).guild))
            => connections' = connections]_vars


\* no handler of g waits for anything and no sink of g has a signal to give
Quiescent(g) ==
    /\ Steady(g)
    /\ \A j \in joins : j.guild # g
    /\ \A r \in resolving \cup replying : r.guild # g

\* C12: once nothing is in flight for a guild, the Queue of the latest
\* 'queue-update' event emitted for it is the guild's current Queue: every
\* mutation, by a command or by a sink signal, was followed by its event
C12_QuiescentSnapshotIsCurrent ==
    \A g \in DOMAIN queues \cap DOMAIN emitted :
        Quiescent(g) => emitted[g] = queues[g]


\* C13: removeTrack with an index below 0 or not below the pending length,
\* or for a guild without a Queue, changes no Queue
C13_RemoveOutOfRangeChangesNothing ==
    [][\A g \in Guilds, idx \in RemoveInputs :
        (/\ RemoveTrack(g, idx)
         /\ (~HasQueue(g) \/ idx < 0 \/ idx >= Len(queues[g].tracks)))
            => queues' = queues]_vars

\* C13 witness: a Queue with the pending Tracks <<2, 3>> behind its
\* currentTrack, for which the indexes -1, 2 and 3 are outside
C13_Witness ==
    /\ HasQueue("g1")
    /\ queues["g1"].currentTrack = 1
    /\ queues["g1"].tracks = <<2, 3>>
    /\ {-1, 2, 3} \subseteq RemoveInputs

\* C14: removeTrack with an index inside the pending sequence removes the
\* Track at that position (counted from 0), keeps the others in their
\* order, and changes no other field of the Queue
C14_RemoveInRangeRemovesOne ==
    [][\A g \in Guilds, idx \in RemoveInputs :
        (/\ RemoveTrack(g, idx)
         /\ HasQueue(g) /\ 0 <= idx /\ idx < Len(queues[g].tracks))
            => LET old == queues[g].tracks IN
               /\ queues'[g].tracks =
                      SubSeq(old, 1, idx) \o SubSeq(old, idx + 2, Len(old))
               /\ queues' = [queues EXCEPT ![g].tracks = queues'[g].tracks]]_vars

\* C14 witness: Track 1 was started by its own addTrack, so nothing has
\* advanced yet; Tracks 2 and 3 were both added, and Track 2 is gone from
\* pending, which only removeTrack can have done
C14_Witness ==
    /\ HasQueue("g1")
    /\ queues["g1"].currentTrack = 1
    /\ \E l \in loads : l.track = 1 /\ l.caller = "addTrack"
    /\ {2, 3} \subseteq DOMAIN results
    /\ results[2].ok /\ results[3].ok
    /\ queues["g1"].tracks = <<3>>


\* C15: setVolume(v) stores v clamped to 0..100, a Queue is created with
\* volume 100, and the volume of every Queue is within 0..100 in every
\* reachable state
C15_VolumeClamped ==
    /\ [](\A g \in DOMAIN queues :
            queues[g].volume >= 0 /\ queues[g].volume <= 100)
    /\ [][\A g \in Guilds :
            /\ \A v \in VolumeLevels :
                SetVolume(g, v) =>
                    queues'[g].volume = IF v < 0 THEN 0
                                        ELSE IF v > 100 THEN 100 ELSE v
            /\ (~HasQueue(g) /\ g \in DOMAIN queues')
                    => queues'[g].volume = 100]_vars

\* C15 witness: volume 0 on a Queue that was created with 100; no level
\* setVolume is called with is 0, so a negative level was clamped
C15_Witness ==
    /\ 0 \notin VolumeLevels
    /\ HasQueue("g1")
    /\ queues["g1"].volume = 0

\* C16: setVolume changes the volume field of the Queue and nothing else: no
\* other field, no player, no stream request, no connection
C16_SetVolumeChangesVolumeOnly ==
    [][\A g \in Guilds, v \in VolumeLevels :
        SetVolume(g, v)
            => /\ queues' = [queues EXCEPT ![g].volume = queues'[g].volume]
               /\ players' = players
               /\ loads' = loads
               /\ connections' = connections
               /\ resolving' = resolving]_vars

\* C16 witness: the volume is 50, which only setVolume(50) stores, on a
\* Queue that plays its currentTrack with another Track pending
C16_Witness ==
    /\ HasQueue("g1")
    /\ queues["g1"].volume = 50
    /\ queues["g1"].isPlaying
    /\ queues["g1"].currentTrack # NoTrack
    /\ Len(queues["g1"].tracks) > 0
    /\ players[connections["g1"].player].status = "playing"


\* every ordering of the elements of s, each element as often as in s
Orderings(s) ==
    {[k \in 1..Len(s) |-> s[f[k]]] :
        f \in {h \in [1..Len(s) -> 1..Len(s)] :
                \A a, b \in 1..Len(s) : h[a] = h[b] => a = b}}

\* C17: shuffle always flips the flag; when the flag becomes true the tracks
\* are replaced by an ordering of themselves, when it becomes false they stay
\* as they are; no other field of the Queue and no player changes
C17_ShuffleFlipsAndPermutes ==
    [][\A g \in Guilds :
        (Shuffle(g) /\ HasQueue(g))
            => /\ queues'[g].shuffle = ~queues[g].shuffle
               /\ ~queues[g].shuffle
                    => queues'[g].tracks \in Orderings(queues[g].tracks)
               /\ queues[g].shuffle => queues'[g].tracks = queues[g].tracks
               /\ queues' = [queues EXCEPT ![g].shuffle = queues'[g].shuffle,
                                           ![g].tracks = queues'[g].tracks]
               /\ players' = players
               /\ loads' = loads]_vars

\* C17 witness: the flag, false in a new Queue, is true, and the two pending
\* Tracks are not in the order of their commands
C17_Witness ==
    /\ HasQueue("g1")
    /\ queues["g1"].shuffle
    /\ queues["g1"].currentTrack = 1
    /\ queues["g1"].tracks = <<3, 2>>

\* C18: whenever the flag is false, whatever was toggled before, the next
\* shuffle can leave the tracks in any of their orderings, with the flag true
C18_EveryEnablePermutesAgain ==
    \A g \in DOMAIN queues :
        ~queues[g].shuffle
            => \A o \in Orderings(queues[g].tracks) :
                    ENABLED (/\ Shuffle(g)
                             /\ queues'[g].shuffle
                             /\ queues'[g].tracks = o)

\* C18 witness: the flag is false on a Queue with two Tracks pending behind a
\* currentTrack that is playing
C18_Witness ==
    /\ HasQueue("g1")
    /\ ~queues["g1"].shuffle
    /\ queues["g1"].isPlaying
    /\ queues["g1"].currentTrack # NoTrack
    /\ Len(queues["g1"].tracks) = 2

\* C19: while the flag is true, the completion signal moves the head of tracks
\* into currentTrack and leaves the rest in order, and addTrack puts the new
\* Track behind the last one (before its own auto-start, if it starts)
C19_ShuffleOnAdvancePopsHeadAddAppends ==
    [][/\ \A p \in PlayerIds :
            (/\ PlayerEnded(p)
             /\ HasQueue(players[p].guild)
             /\ queues[players[p].guild].shuffle
             /\ queues[players[p].guild].tracks # <<>>)
                => LET g == players[p].guild
                   IN  /\ queues'[g].currentTrack = queues[g].tracks[1]
                       /\ queues'[g].tracks
                            = SubSeq(queues[g].tracks, 2, Len(queues[g].tracks))
       /\ \A t \in Tracks :
            (/\ ResolveOk(t)
             /\ HasQueue(ResolutionOf(t).guild)
             /\ queues[ResolutionOf(t).guild].shuffle)
                => LET g == ResolutionOf(t).guild
                       all == queues[g].tracks \o <<t>>
                   IN  \/ queues'[g].tracks = all
                       \/ /\ queues'[g].currentTrack = all[1]
                          /\ queues'[g].tracks = SubSeq(all, 2, Len(all))]_vars

\* C19 witness: the last 'queue-update', which every command of the
\* dashboard emits, shows the flag true, Track 1 current and Track 2 pending;
\* nothing but the sink and addTrack has run since: Track 3 was added behind
\* Track 2, and the stream of Track 2 is being requested for the completion
\* signal that ended Track 1
C19_Witness ==
    /\ HasQueue("g1")
    /\ "g1" \in DOMAIN emitted
    /\ emitted["g1"].shuffle
    /\ emitted["g1"].currentTrack = 1
    /\ emitted["g1"].tracks = <<2>>
    /\ queues["g1"].shuffle
    /\ queues["g1"].currentTrack = 2
    /\ queues["g1"].tracks = <<3>>
    /\ \E l \in loads : l.guild = "g1" /\ l.track = 2 /\ l.caller = "Idle"

\* C20: once a session that stop() has emptied (no currentTrack, nothing
\* pending) has no stream request in flight and no signal of its sink to come,
\* it is idle: isPlaying and isPaused are both false
C20_StoppedSessionIsIdle ==
    \A g \in DOMAIN queues :
        (/\ Steady(g)
         /\ queues[g].currentTrack = NoTrack
         /\ queues[g].tracks = <<>>)
            => ~queues[g].isPlaying /\ ~queues[g].isPaused


\* the player that the connection of g holds is in the given state
PlayerIs(g, status) ==
    HasConnection(g) /\ players[connections[g].player].status = status

\* C21: pause on a session that plays (player playing, isPlaying and not
\* isPaused) pauses the player and sets isPaused, nothing else; resume on the
\* session as pause left it makes the player play and clears isPaused,
\* nothing else, so that the Queue is again what it was before the pause;
\* tracks, currentTrack, volume, shuffle and loop are changed by neither
C21_PauseResumeRoundTrip ==
    [][\A g \in Guilds :
        /\ (/\ pause(g)
            /\ HasQueue(g)
            /\ PlayerIs(g, "playing")
            /\ queues[g].isPlaying /\ ~queues[g].isPaused)
                => /\ queues' = [queues EXCEPT ![g].isPaused = TRUE]
                   /\ players'[connections[g].player].status = "paused"
                   /\ loads' = loads
        /\ (/\ resume(g)
            /\ HasQueue(g)
            /\ PlayerIs(g, "paused")
            /\ queues[g].isPlaying /\ queues[g].isPaused)
                => /\ queues' = [queues EXCEPT ![g].isPaused = FALSE]
                   /\ [queues'[g] EXCEPT !.isPaused = TRUE] = queues[g]
                   /\ players'[connections[g].player].status = "playing"
                   /\ loads' = loads]_vars

\* C21 witness: the last 'queue-update', which only pause emits here, shows
\* the Queue paused; the player plays again and the Queue differs from that
\* snapshot in isPaused only, so resume has undone the pause
C21_Witness ==
    /\ HasQueue("g1")
    /\ "g1" \in DOMAIN emitted
    /\ emitted["g1"].isPaused /\ emitted["g1"].isPlaying
    /\ emitted["g1"].currentTrack = 1
    /\ PlayerIs("g1", "playing")
    /\ queues["g1"] = [emitted["g1"] EXCEPT !.isPaused = FALSE]


\* C22: disconnect on a guild with a connection removes the guild from the
\* connections and from the queues, so that getConnection and getQueue find
\* nothing, the number of connections drops by one and the total of pending
\* Tracks by those of the guild; on a guild without a connection it changes
\* neither map
C22_DisconnectDiscardsSession ==
    [][\A g \in Guilds :
        Disconnect(g)
            => IF HasConnection(g)
               THEN /\ g \notin DOMAIN connections'
                    /\ g \notin DOMAIN queues'
                    /\ getActiveConnections' = getActiveConnections - 1
                    /\ getTotalTracks'
                        = getTotalTracks
                            - (IF HasQueue(g) THEN Len(queues[g].tracks) ELSE 0)
               ELSE connections' = connections /\ queues' = queues]_vars

\* C22 witness: the addTrack of a /play on g1 has returned Track 1, which it
\* does only after the guild had its connection; no command is running, and
\* the manager has neither Queue nor connection for g1
C22_Witness ==
    /\ 1 \in DOMAIN results
    /\ results[1].ok
    /\ results[1].guild = "g1"
    /\ resolving = {}
    /\ joins = {}
    /\ ~HasQueue("g1")
    /\ ~HasConnection("g1")


\* the registry entries of guild h are the same before and after the step
SameSession(h) ==
    /\ (h \in DOMAIN connections') = (h \in DOMAIN connections)
    /\ (h \in DOMAIN queues') = (h \in DOMAIN queues)
    /\ h \in DOMAIN connections => connections'[h] = connections[h]
    /\ h \in DOMAIN queues => queues'[h] = queues[h]

\* C23: cleanup(guildId) removes the connection and the Queue of that guild
\* and leaves those of every other guild as they are; cleanup() leaves no
\* connection and no Queue: the connection count and the total of pending
\* Tracks are 0
C23_CleanupOneOrAll ==
    [][/\ \A g \in Guilds :
            Disconnect(g)
                => /\ g \notin DOMAIN connections'
                   /\ g \notin DOMAIN queues'
                   /\ \A h \in Guilds \ {g} : SameSession(h)
       /\ Cleanup
            => /\ DOMAIN connections' = {}
               /\ DOMAIN queues' = {}
               /\ getActiveConnections' = 0
               /\ getTotalTracks' = 0]_vars

\* C23 witness: g2 got its connection and Track 1 before g1 got its
\* connection and Track 2, and no other command was issued; g1 has no
\* Session any more while g2 still has Track 1 as currentTrack, so
\* cleanup("g1") ran while both were registered
C23_Witness ==
    /\ DOMAIN results = {1, 2}
    /\ results[1].guild = "g2" /\ results[1].ok
    /\ results[2].guild = "g1" /\ results[2].ok
    /\ resolving = {} /\ joins = {} /\ conflicts = 0
    /\ ~HasConnection("g1") /\ ~HasQueue("g1")
    /\ HasConnection("g2") /\ HasQueue("g2")
    /\ queues["g2"].currentTrack = 1


\* every guild but g keeps its registry entries in the step
OthersKeep(g) == \A h \in Guilds \ {g} : SameSession(h)

C25_CatalogUnavailableFallsBack ==
    [][\A t \in Tracks, q \in Queries, e \in Environments :
        (/\ isSpotifyUrl(q)
         /\ ~e.spotify \/ e.lookup.rejected
         /\ Raw(q) \in e.hits
         /\ AddTrackResumed(t, q, e))
            => results'[t].ok]_vars

\* C26: with the catalog client and an answered lookup, an addTrack with a
\* catalog URL searches the primary provider for "<artist> <name>"; with a
\* candidate, the Track has the catalog's artist and name as title, the
\* catalog's duration in whole seconds and the catalog's image, and the id and
\* the URL of that candidate, never the catalog URL; without one, addTrack
\* returns no Track and the Queue stays as it is
C26_CatalogTrackFromLookupAndSearch ==
    [][\A t \in Tracks, q \in Queries, e \in Environments :
        (/\ isSpotifyUrl(q)
         /\ e.spotify
         /\ ~e.lookup.rejected
         /\ AddTrackResumed(t, q, e))
            => LET text == <<e.lookup.artist, " ", e.lookup.name>> IN
               IF text \in e.hits
               THEN /\ results'[t].ok
                    /\ results'[t].track.title
                        = <<e.lookup.artist, " - ", e.lookup.name>>
                    /\ results'[t].track.duration * 1000 <= e.lookup.duration_ms
                    /\ e.lookup.duration_ms < (results'[t].track.duration + 1) * 1000
                    /\ results'[t].track.thumbnail = e.lookup.image
                    /\ results'[t].track.id = Video(text).id
                    /\ results'[t].track.url = Video(text).url
                    /\ results'[t].track.url # Raw(q)
               ELSE /\ ~results'[t].ok
                    /\ queues' = queues]_vars

\* C26 witness: Track 1 was resolved from the catalog URL, carries the
\* catalog as its source and is the currentTrack of the Queue
C26_Witness ==
    /\ 1 \in DOMAIN results
    /\ results[1].ok
    /\ results[1].query = SpotifyQuery
    /\ results[1].track.source = "spotify"
    /\ HasQueue("g1")
    /\ queues["g1"].currentTrack = 1


\* C27: a failure of the stream on the registered, playing player of a guild
\* does what the end of the track does: the Queue advances as the Idle
\* listener and playNext make it, the Session stays registered, and the
\* process goes on serving
C27_SinkErrorIsEndOfTrack ==
    [][\A p \in PlayerIds :
        (/\ PlayerErrored(p)
         /\ players[p].status = "playing"
         /\ Subscribed(p)
         /\ HasQueue(players[p].guild))
            => /\ ~crashed'
               /\ players[p].guild \in DOMAIN connections'
               /\ players[p].guild \in DOMAIN queues'
               /\ queues'[players[p].guild]
                    = PlayNextQueue(OnIdle(queues[players[p].guild]))]_vars


\* C28: a joinChannel call that ends without handlePlayCommand going on to
\* addTrack (the connection was not ready within the timeout) leaves
\* connections and queues as they were, for its own guild and for every
\* other; and a guild gets its connection or its Queue only in the step in
\* which a joinChannel call for that guild resumes with the connection ready
C28_TimedOutJoinCreatesNoSession ==
    /\ [][\A j \in joins :
            (j \notin joins' /\ resolving' = resolving)
                => /\ connections' = connections
                   /\ queues' = queues
                   /\ j.guild \notin DOMAIN connections
                        => j.guild \notin DOMAIN connections'
                   /\ j.guild \notin DOMAIN queues
                        => j.guild \notin DOMAIN queues']_vars
    /\ [][\A g \in Guilds :
            (\/ g \notin DOMAIN connections /\ g \in DOMAIN connections'
             \/ g \notin DOMAIN queues /\ g \in DOMAIN queues')
                => \E p \in PlayerIds :
                    /\ JoinReady(p)
                    /\ \E j \in joins : j.player = p /\ j.guild = g]_vars

\* C28 witness: the second player created is the only one left and holds
\* the registration of g2, and one addTrack call was made in all: the join
\* that created the first player ended without its connection and without
\* an addTrack, and "g1" has no Session
C28_Witness ==
    /\ joins = {}
    /\ DOMAIN players = {2}
    /\ DOMAIN connections = {"g2"}
    /\ connections["g2"].player = 2
    /\ DOMAIN queues = {"g2"}
    /\ NextTrack = 2
    /\ conflicts = 0


\* the guilds that have a Session, and the places of their pending Tracks
SessionGuilds == {g \in Guilds : HasConnection(g) /\ HasQueue(g)}

PendingPlaces ==
    {pl \in Guilds \X (1..MaxTracks) :
        pl[1] \in SessionGuilds /\ pl[2] <= Len(queues[pl[1]].tracks)}

\* C29: in every state getActiveConnections is the number of guilds with a
\* Session and getTotalTracks is the number of places in the pending
\* sequences of all Sessions, the currentTracks not among them; and the
\* 'stats-update' event of a tick of the interval carries these two numbers
\* as they are at the tick
C29_StatsCountSessionsAndPending ==
    /\ [](/\ getActiveConnections = Cardinality(SessionGuilds)
          /\ getTotalTracks = Cardinality(PendingPlaces))
    /\ [][StatsTick =>
            stats' = <<[activeConnections |-> Cardinality(SessionGuilds),
                        totalTracks |-> Cardinality(PendingPlaces)]>>]_vars

\* C29 witness: the latest event reports two Sessions and one pending Track,
\* which is what the maps hold, while both Sessions have a currentTrack of
\* their own
C29_Witness ==
    /\ stats = <<[activeConnections |-> 2, totalTracks |-> 1]>>
    /\ DOMAIN queues = Guilds
    /\ \A g \in Guilds : queues[g].currentTrack # NoTrack
    /\ Len(queues["g1"].tracks) = 0
    /\ Len(queues["g2"].tracks) = 1


\* C30: in every state no place of a Queue's tracks holds the Track that is
\* its currentTrack, and no Track is at two places; the Idle listener's
\* advance on a Queue with pending Tracks makes the head the currentTrack
\* and leaves the rest as tracks
C30_PendingExcludesCurrent ==
    /\ [](\A g \in DOMAIN queues :
            \A i \in 1..Len(queues[g].tracks) :
                /\ queues[g].tracks[i] # queues[g].currentTrack
                /\ \A k \in 1..Len(queues[g].tracks) :
                    queues[g].tracks[i] = queues[g].tracks[k] => i = k)
    /\ [][\A p \in PlayerIds :
            (/\ PlayerEnded(p)
             /\ HasQueue(players[p].guild)
             /\ Len(queues[players[p].guild].tracks) > 0)
                => /\ queues'[players[p].guild].currentTrack
                        = Head(queues[players[p].guild].tracks)
                   /\ queues'[players[p].guild].tracks
                        = Tail(queues[players[p].guild].tracks)]_vars

\* C30 witness: the Idle listener advanced to Track 2, whose stream its
\* playNext has requested, and Track 3 is what is left pending
C30_Witness ==
    /\ HasQueue("g1")
    /\ queues["g1"].currentTrack = 2
    /\ queues["g1"].tracks = <<3>>
    /\ \E l \in loads : l.guild = "g1" /\ l.track = 2 /\ l.caller = "Idle"


\* C31: an addTrack call that resumes with its Track while the guild has no
\* Queue does not return the Track: it reports a failure to its caller, and
\* no reply of handlePlayCommand announces the Track as added
C31_AddWithoutSessionFails ==
    [][\A t \in Tracks :
        (/\ \E r \in resolving : r.track = t /\ ~HasQueue(r.guild)
         /\ ResolveOk(t))
            => /\ ~results'[t].ok
               /\ replying' = replying]_vars


\* the values the type of Queue.loop allows
LoopValues == {"none", "track", "queue"}

\* C32: the loop field of every Queue is 'none' in every state; what the
\* Idle listener, playNext and addTrack's auto-start make of a Queue is the
\* same whatever its loop field holds; and the Idle listener's step neither
\* puts the Track that was current back into tracks nor requests its stream
\* again
C32_LoopIsInert ==
    /\ [](\A g \in DOMAIN queues :
            /\ queues[g].loop = "none"
            /\ \A v \in LoopValues :
                LET q == queues[g]
                    qv == [q EXCEPT !.loop = v]
                IN  /\ PlayNextQueue(OnIdle(qv))
                        = [PlayNextQueue(OnIdle(q)) EXCEPT !.loop = v]
                    /\ PlayNextLoads(g, OnIdle(qv), "Idle")
                        = PlayNextLoads(g, OnIdle(q), "Idle")
                    /\ AddTrackStarts(qv) = AddTrackStarts(q))
    /\ [][\A p \in PlayerIds :
            (/\ p \in DOMAIN players
             /\ HasQueue(players[p].guild)
             /\ queues[players[p].guild].currentTrack # NoTrack
             /\ PlayerEnded(p))
                => LET g == players[p].guild
                       c == queues[g].currentTrack
                   IN  /\ \A i \in 1..Len(queues'[g].tracks) : queues'[g].tracks[i] # c
                       /\ \A l \in loads' \ loads : l.track # c]_vars

\* C32 witness: the Idle listener has advanced the Queue from Track 1 to
\* Track 2, the last one, whose stream it requested; Track 1 is nowhere in
\* the Queue and loop is 'none'
C32_Witness ==
    /\ HasQueue("g1")
    /\ queues["g1"].loop = "none"
    /\ queues["g1"].currentTrack = 2
    /\ queues["g1"].tracks = <<>>
    /\ \E l \in loads : l.guild = "g1" /\ l.track = 2 /\ l.caller = "Idle"


\* C33: the step in which the client joins the room of a guild delivers to
\* it one event carrying the guild's Queue as it is then, or nothing when
\* the guild has no Queue, and whatever step delivers anything delivers one
\* event carrying a Queue as the step leaves it: no event emitted earlier is
\* delivered later
C33_JoinSendsOneSnapshotNoReplay ==
    /\ [][\A g \in Guilds :
            (g \notin socket.rooms /\ g \in socket'.rooms)
                => socket'.inbox =
                        IF HasQueue(g)
                        THEN Append(socket.inbox, Event(g, queues[g]))
                        ELSE socket.inbox]_vars
    /\ [][\/ socket'.inbox = socket.inbox
          \/ \E g \in DOMAIN queues' :
                socket'.inbox = Append(socket.inbox, Event(g, queues'[g]))]_vars

\* C33 witness: the client is in the room of "g1" and has received one
\* event, the Queue of "g1" as it is, which differs from the latest
\* 'queue-update' emitted for "g1": that one was emitted before the client
\* joined and never reached it
C33_Witness ==
    /\ "g1" \in socket.rooms
    /\ "g1" \in DOMAIN emitted
    /\ HasQueue("g1")
    /\ socket.inbox = <<Event("g1", queues["g1"])>>
    /\ emitted["g1"] # queues["g1"]


\* Track t is at some place of the pending sequence of some guild
InPending(t) ==
    \E g \in DOMAIN queues :
        \E i \in 1..Len(queues[g].tracks) : queues[g].tracks[i] = t

\* C34: with every stream request succeeding and every player signalling
\* the start and the end of what it plays, a Track in a pending sequence
\* eventually is there no more
C34_PendingTrackEventuallyLeaves ==
    \A t \in Tracks : InPending(t) ~> ~InPending(t)


\* C35: when the stream request for the currentTrack of a guild fails on
\* the guild's registered player, the step leaves the Queue advanced to the
\* next pending Track or with currentTrack empty: the failed Track is not
\* the currentTrack any more
C35_FailedLoadMovesOn ==
    [][\A p \in PlayerIds, t \in Tracks :
        (/\ p \in DOMAIN players
         /\ Subscribed(p)
         /\ HasQueue(players[p].guild)
         /\ queues[players[p].guild].currentTrack = t
         /\ StreamFailed(p, t))
            => /\ players[p].guild \in DOMAIN queues'
               /\ queues'[players[p].guild].currentTrack # t]_vars


\* the Queue of g as stop leaves it, and as it stays until an addTrack call
\* pushes a Track: nothing current, nothing pending
Cleared(g) ==
    /\ HasQueue(g)
    /\ queues[g].currentTrack = NoTrack
    /\ queues[g].tracks = <<>>

\* C36: while the Queue of a guild is as stop left it, the guild's
\* registered player is not handed a stream and does not signal the start
\* of one, and no step other than a successful addTrack sets currentTrack
C36_StopIsFinal ==
    [][\A p \in PlayerIds :
        (p \in DOMAIN players /\ Subscribed(p) /\ Cleared(players[p].guild))
            => /\ \A t \in Tracks : ~StreamLoaded(p, t)
               /\ ~PlayerStarted(p)
               /\ (\A t \in Tracks : ~ResolveOk(t))
                    => /\ players[p].guild \in DOMAIN queues'
                          => queues'[players[p].guild].currentTrack = NoTrack]_vars


\* C37: for a player whose guild has been disconnected, a stream request
\* that comes back and the signals of the player leave every Queue as it is
\* and throw nothing
C37_LateEventsAreHarmless ==
    [][\A p \in PlayerIds :
        (/\ p \in DOMAIN players
         /\ ~HasConnection(players[p].guild)
         /\ \/ PlayerStarted(p)
            \/ PlayerEnded(p)
            \/ \E t \in Tracks : StreamLoaded(p, t))
            => /\ ~crashed'
               /\ queues' = queues]_vars


\* C38: in every state in which skip reports success for a guild whose Queue
\* has a currentTrack, the stop() that skip calls leaves the guild's player
\* ending a resource, so that its completion signal is due
C38_SkipEndsCurrentTrack ==
    \A g \in DOMAIN connections :
        (~crashed /\ HasQueue(g) /\ queues[g].currentTrack # NoTrack)
            => LET after == PlayerStop(players[connections[g].player])
               IN  after.status # "idle" /\ after.stopping


\* Track t is pending in the Queue of g; Track t is held by some Queue, as
\* a pending Track or as currentTrack
PendingIn(g, t) ==
    /\ g \in DOMAIN queues
    /\ \E i \in 1..Len(queues[g].tracks) : queues[g].tracks[i] = t

Held(t) ==
    \E g \in DOMAIN queues : queues[g].currentTrack = t \/ PendingIn(g, t)

\* C39: every Track is held at one place at most, a pending position or a
\* currentTrack; a Track leaves the pending sequence of a guild only by
\* becoming that guild's currentTrack or in a step of removeTrack, stop or
\* disconnect; and a Track that addTrack has returned and that no Queue
\* holds is held by none afterwards
C39_TracksConservedNotDuplicated ==
    /\ [](\A g \in DOMAIN queues :
            /\ \A i, k \in 1..Len(queues[g].tracks) :
                    queues[g].tracks[i] = queues[g].tracks[k] => i = k
            /\ \A h \in DOMAIN queues :
                    /\ ~PendingIn(h, queues[g].currentTrack)
                    /\ h # g =>
                        /\ queues[g].currentTrack = NoTrack
                                \/ queues[g].currentTrack # queues[h].currentTrack
                        /\ \A i \in 1..Len(queues[g].tracks) :
                                ~PendingIn(h, queues[g].tracks[i]))
    /\ [][/\ \A g \in DOMAIN queues :
                \A t \in Tracks :
                    PendingIn(g, t) /\ ~PendingIn(g, t)'
                        => \/ g \in DOMAIN queues' /\ queues'[g].currentTrack = t
                           \/ \E idx \in RemoveInputs : RemoveTrack(g, idx)
                           \/ Stop(g)
                           \/ Disconnect(g)
          /\ \A t \in DOMAIN results : ~Held(t) => ~Held(t)']_vars

\* C39 witness: addTrack has returned three Tracks; the Idle listener has
\* advanced the Queue to Track 3, and no Queue holds Track 1 or Track 2 any
\* more
C39_Witness ==
    /\ DOMAIN results = {1, 2, 3}
    /\ \A t \in 1..3 : results[t].ok
    /\ HasQueue("g1")
    /\ queues["g1"].currentTrack = 3
    /\ queues["g1"].tracks = <<>>
    /\ \E l \in loads : l.track = 3 /\ l.caller = "Idle"
    /\ ~Held(1) /\ ~Held(2)


\* C40: connections and queues have entries for the same guilds in every
\* state: getQueue(g) is defined exactly when getConnection(g) is, whatever
\* joins, failed joins, disconnects and cleanups came before
C40_MapsInStep ==
    \A g \in Guilds : HasQueue(g) <=> HasConnection(g)

\* C40 witness: g2 had a Session (its addTrack call is still waiting for the
\* provider) and has lost both entries to a disconnect or a cleanup, while
\* g1 has both
C40_Witness ==
    /\ \E r \in resolving : r.guild = "g2"
    /\ ~HasConnection("g2") /\ ~HasQueue("g2")
    /\ HasConnection("g1") /\ HasQueue("g1")
    /\ connections["g1"].player = 2

====
